---------------------------- MODULE Spec2Model ----------------------------
(***************************************************************************)
(* Model of src/src/main.rs (simulated_annealing_tsp repository).          *)
(*                                                                         *)
(* A distance matrix is a Vec<Vec<u16>>: a sequence of rows, each row a    *)
(* sequence of weights; rows need not have the same length.  Cities are    *)
(* numbered from 0 as in the source, sequences are indexed from 1, so the  *)
(* entry intercity_map[a][b] of the source is m[a + 1][b + 1] here.        *)
(*                                                                         *)
(* Option values are records: None, Some(v).  A panic of the Rust runtime  *)
(* (index out of bounds, unwrap of None) is the value Panic, and the       *)
(* caller that hit it stops at pc = "panicked".                            *)
(***************************************************************************)
EXTENDS Integers, Sequences, FiniteSets

\* Bounds of the model: callers supply every matrix of up to MaxCities rows,
\* each row of up to MaxCities weights (square, non-square and ragged ones),
\* paths of up to MaxPathLen cities; generate_map is called for up to
\* MaxGenCities cities.
MaxCities == 2
MaxPathLen == 3
MaxGenCities == 3

\* Program constants.
k == 32
MainNumCities == 10
MainLow == 1
MainHigh == 1
U16 == 65536

VARIABLES
    caller,         \* "main" (fn main) or "test" (a caller of one function)
    pc,             \* position of the caller
    intercity_map,  \* the matrix handed to the functions
    gen_args,       \* arguments of the generate_map call, <<>> before it
    gen_ret,        \* result of generate_map
    path,           \* path argument of the path_cost call
    cost_ret,       \* result of path_cost
    path_ret,       \* result of generate_random_path
    bf_ret,         \* result of brute_force_tsp
    sa_ret,         \* result of simulated_annealing_tsp
    optimal_path,   \* simulated_annealing_tsp: incumbent path
    optimal_cost,   \* simulated_annealing_tsp: incumbent cost (Option<u64>)
    new_cost,       \* simulated_annealing_tsp: cost of the last candidate new_path
    i,              \* simulated_annealing_tsp: iterations of `for _ in 0..k` done
    errlog,         \* messages written with error!
    stdout          \* lines written with println!

vars == <<caller, pc, intercity_map, gen_args, gen_ret, path, cost_ret, path_ret,
          bf_ret, sa_ret, optimal_path, optimal_cost, new_cost, i,
          errlog, stdout>>

-----------------------------------------------------------------------------
\* Option<T>, and the outcome of a call that panicked or was never made.
None == [tag |-> "None"]
Some(v) == [tag |-> "Some", val |-> v]
Panic == [tag |-> "Panic"]
NotCalled == [tag |-> "NotCalled"]

\* Option<u64>'s derived ordering: None is less than every Some.
OptLess(a, b) ==
    IF a.tag = "None" THEN b.tag = "Some"
    ELSE b.tag = "Some" /\ a.val < b.val

\* Messages of the error! calls.
ErrRange == "Weight range cannot be reversed or empty"
ErrSquare == "The provided map must be square"
ErrOptimal == "The optimal cost failed to be found"
ErrMainBrute == "Brute Force TSP finding failed"
ErrMainAnneal == "Simulated Annealing TSP finding failed"

-----------------------------------------------------------------------------
\* fn valid_city_map: non-empty, and the FIRST row as long as the matrix has rows.
valid_city_map(m) == Len(m) # 0 /\ Len(m[1]) = Len(m)

\* intercity_map[a][b] is inside the vectors (otherwise the index panics).
InBounds(m, a, b) == a < Len(m) /\ b < Len(m[a + 1])

\* Variant of windows that also pairs the last city with the first (a closed
\* tour).
windows_closing(p) ==
    [w \in 1..(IF Len(p) >= 2 THEN Len(p) ELSE 0) |-> <<p[w], p[(w % Len(p)) + 1]>>]

\* path.windows(2): the consecutive pairs, none for a path shorter than 2.
windows(p) ==
    [w \in 1..(IF Len(p) >= 2 THEN Len(p) - 1 ELSE 0) |-> <<p[w], p[w + 1]>>]

\* .map(|endpoints| intercity_map[..][..] as u64).sum(): left to right from 0.
RECURSIVE sum_windows(_, _, _, _)
sum_windows(m, ws, w, acc) ==
    IF w > Len(ws) THEN Some(acc)
    ELSE IF ~InBounds(m, ws[w][1], ws[w][2]) THEN Panic
    ELSE sum_windows(m, ws, w + 1, acc + m[ws[w][1] + 1][ws[w][2] + 1])

\* fn path_cost.  (The u64 sum cannot overflow at these sizes.)
path_cost(m, p) ==
    IF ~valid_city_map(m) THEN None
    ELSE sum_windows(m, windows(p), 1, 0)

\* intercity_map.iter().enumerate().map(|(idx, _)| idx as u16): the identity path.
initial_path(m) == [c \in 1..Len(m) |-> (c - 1) % U16]


\* Vec without its x-th element.
without(s, x) == SubSeq(s, 1, x - 1) \o SubSeq(s, x + 1, Len(s))

\* itertools' .permutations(num_cities) of the whole sequence: every ordering,
\* in lexicographic order of the positions, the sequence itself first.
RECURSIVE permutations(_)
permutations(s) ==
    IF Len(s) = 0 THEN << <<>> >>
    ELSE LET block(x) ==
                 LET rest == permutations(without(s, x))
                 IN  [q \in 1..Len(rest) |-> <<s[x]>> \o rest[q]]
             RECURSIVE cat(_)
             cat(x) == IF x > Len(s) THEN <<>> ELSE block(x) \o cat(x + 1)
         IN  cat(1)

\* Variant of takes_later that also takes the later element on Equal (what
\* Iterator::max_by's fold does for the maximum).
takes_later_on_ties(cx, cy) == ~OptLess(cx, cy)

\* Iterator::min_by is reduce(|x, y| match compare(&x, &y) { Greater => y, _ => x }):
\* the later element y replaces x only when compare(x, y) is Greater.
takes_later(cx, cy) == OptLess(cy, cx)

\* The reduce of min_by with compare = |p1, p2| cost(p1).cmp(&cost(p2)); a cost
\* closure that panics ends the whole call.
RECURSIVE min_by_fold(_, _, _, _)
min_by_fold(m, ps, n, best) ==
    IF n > Len(ps) THEN Some(best)
    ELSE LET c1 == path_cost(m, best)
             c2 == path_cost(m, ps[n])
         IN  IF c1.tag = "Panic" \/ c2.tag = "Panic" THEN Panic
             ELSE min_by_fold(m, ps, n + 1, IF takes_later(c1, c2) THEN ps[n] ELSE best)

min_by(m, ps) == IF Len(ps) = 0 THEN None ELSE min_by_fold(m, ps, 2, ps[1])

\* fn brute_force_tsp: None, Some(<<optimal_path, optimal_cost>>), or Panic.
brute_force_tsp(m) ==
    IF ~valid_city_map(m) THEN None
    ELSE LET best == min_by(m, permutations(initial_path(m)))
         IN  IF best.tag # "Some" THEN Panic   \* a panicking cost, or .unwrap() of None
             ELSE LET optimal == path_cost(m, best.val)
                  IN  IF optimal.tag = "Some" THEN Some(<<best.val, optimal.val>>)
                      ELSE optimal

\* The error! lines a call of brute_force_tsp or of simulated_annealing_tsp
\* that ended with result r writes.
solver_errors(m, r) ==
    IF ~valid_city_map(m) THEN <<ErrSquare>>
    ELSE IF r.tag = "None" THEN <<ErrOptimal>>
    ELSE <<>>

\* Variant of shuffle that may also draw every position from the first element
\* (sampling with replacement).
shuffle_repeating(p) ==
    LET ps == permutations(p)
    IN  {ps[q] : q \in 1..Len(ps)} \cup {[x \in 1..Len(p) |-> p[1]]}

\* path.shuffle(&mut thread_rng()): any ordering of the elements.
shuffle(p) == LET ps == permutations(p) IN {ps[q] : q \in 1..Len(ps)}

\* Variants of improves: `new_cost > optimal_cost` and `new_cost <= optimal_cost`.
improves_when_worse(nc, oc) == OptLess(oc, nc)

improves_on_ties(nc, oc) == ~OptLess(oc, nc)

\* `if new_cost < optimal_cost` of simulated_annealing_tsp.
improves(nc, oc) == OptLess(nc, oc)

\* fn generate_random_path.
generate_random_path(m, shuffled) ==
    IF ~valid_city_map(m) THEN None
    ELSE Some(shuffled)

\* (0..(num_cities as u16)).collect()
range_path(m) == [c \in 1..(Len(m) % U16) |-> c - 1]

-----------------------------------------------------------------------------
\* Variant of weight_range_rejected that rejects reversed ranges only.
weight_range_reversed(low, high) == high < low

weight_range_rejected(low, high) == high <= low

upper_pairs(n) == {c \in (0..(n - 1)) \X (0..(n - 1)) : c[1] < c[2]}

draw_sets(n, low, high) ==
    IF weight_range_rejected(low, high) THEN {<<>>}
    ELSE [upper_pairs(n) -> low..(high - 1)]

\* The two nested loops, cell by cell in row-major order.
RECURSIVE fill(_, _, _, _)
fill(m, n, cell, draws) ==
    IF cell >= n * n THEN m
    ELSE LET a == cell \div n
             b == cell % n
             v == IF a > b THEN m[b + 1][a + 1]
                  ELSE IF a = b THEN 0
                  ELSE draws[<<a, b>>]
         IN  fill([m EXCEPT ![a + 1][b + 1] = v], n, cell + 1, draws)

generate_map(n, low, high, draws) ==
    IF weight_range_rejected(low, high) THEN None
    ELSE Some(fill([a \in 1..n |-> [b \in 1..n |-> 0]], n, 0, draws))

\* Option::unwrap_or_default for Vec<Vec<u16>>: the empty matrix.
unwrap_or_default(r) == IF r.tag = "Some" THEN r.val ELSE <<>>

-----------------------------------------------------------------------------
\* Inputs.

\* The maps of tests::test_path_cost and tests::test_brute_force_tsp.
TestPathCostMap ==
    << <<2, 2, 2, 2>>, <<2, 2, 2, 2>>, <<2, 2, 2, 2>>, <<2, 2, 2, 2>> >>

TestBruteForceMap ==
    << <<2, 2, 2, 1>>, <<1, 2, 2, 2>>, <<2, 1, 2, 2>>, <<2, 2, 1, 2>> >>

\* The weights the tests' maps hold.
TestWeights == {1, 2}

\* Every Vec<u16> of up to MaxCities such weights, every Vec of up to MaxCities
\* of them.
Rows == UNION {[1..n -> TestWeights] : n \in 0..MaxCities}

Matrices == UNION {[1..n -> Rows] : n \in 0..MaxCities}

SuppliedMaps == Matrices \cup {TestPathCostMap, TestBruteForceMap}

\* Paths handed to path_cost: cities of the matrix in any order and number, with
\* repetitions, and the identity path (the path of tests::test_path_cost).
Paths(m) ==
    UNION {[1..n -> 0..(Len(m) - 1)] : n \in 0..MaxPathLen} \cup {initial_path(m)}

\* The ends (low, high) of the weight ranges a test asks for: empty, reversed
\* and proper ranges, of one weight and of two.
RangeEnds == {0, 1, 2}

\* Arguments of generate_map: main's, and a test's.
GenArgs(c) ==
    IF c = "main" THEN {<<MainNumCities, MainLow, MainHigh>>}
    ELSE (0..MaxGenCities) \X RangeEnds \X RangeEnds

-----------------------------------------------------------------------------
\* fn main starts before line 140; a test either starts by calling generate_map
\* or holds a literal map.
Init ==
    /\ \/ caller = "main" /\ pc = "start" /\ intercity_map = <<>>
       \/ caller = "test" /\ pc = "start" /\ intercity_map = <<>>
       \/ caller = "test" /\ pc = "have_map" /\ intercity_map \in SuppliedMaps
    /\ gen_args = <<>>
    /\ gen_ret = NotCalled
    /\ path = <<>>
    /\ cost_ret = NotCalled
    /\ path_ret = NotCalled
    /\ bf_ret = NotCalled
    /\ sa_ret = NotCalled
    /\ optimal_path = <<>>
    /\ optimal_cost = NotCalled
    /\ new_cost = NotCalled
    /\ i = 0
    /\ errlog = <<>>
    /\ stdout = <<>>

\* The call of generate_map: main takes unwrap_or_default() of the result
\* (line 140), the tests unwrap() it (lines 200, 237), which panics on None.
GenerateMap ==
    /\ pc = "start"
    /\ \E a \in GenArgs(caller) :
         \E draws \in draw_sets(a[1], a[2], a[3]) :
            LET r == generate_map(a[1], a[2], a[3], draws)
            IN  /\ gen_args' = a
                /\ gen_ret' = r
                /\ errlog' = IF r.tag = "None" THEN Append(errlog, ErrRange) ELSE errlog
                /\ intercity_map' = IF caller = "main" THEN unwrap_or_default(r)
                                    ELSE IF r.tag = "Some" THEN r.val
                                    ELSE intercity_map
                /\ pc' = IF caller = "test" /\ r.tag = "None" THEN "panicked"
                         ELSE "have_map"
    /\ UNCHANGED <<caller, path, cost_ret, path_ret, bf_ret, sa_ret, optimal_path,
                   optimal_cost, new_cost, i, stdout>>

\* A call of path_cost(&intercity_map, &p).
CallPathCost ==
    /\ pc = "have_map"
    /\ caller = "test"
    /\ \E p \in Paths(intercity_map) :
         LET r == path_cost(intercity_map, p)
         IN  /\ path' = p
             /\ cost_ret' = r
             /\ errlog' = IF r.tag = "None" THEN Append(errlog, ErrSquare) ELSE errlog
             /\ pc' = IF r.tag = "Panic" THEN "panicked" ELSE "done"
    /\ UNCHANGED <<caller, intercity_map, gen_args, gen_ret, path_ret, bf_ret, sa_ret,
                   optimal_path, optimal_cost, new_cost, i, stdout>>

\* A call of generate_random_path(&intercity_map).
CallGenerateRandomPath ==
    /\ pc = "have_map"
    /\ caller = "test"
    /\ \E shuffled \in shuffle(range_path(intercity_map)) :
         LET r == generate_random_path(intercity_map, shuffled)
         IN  /\ path_ret' = r
             /\ errlog' = IF r.tag = "None" THEN Append(errlog, ErrSquare) ELSE errlog
    /\ pc' = "done"
    /\ UNCHANGED <<caller, intercity_map, gen_args, gen_ret, path, cost_ret, bf_ret,
                   sa_ret, optimal_path, optimal_cost, new_cost, i, stdout>>

\* What main does with a solver's result r (lines 143-151 and 154-162).
main_errors(c, r, msg) == IF c = "main" /\ r.tag = "None" THEN <<msg>> ELSE <<>>

main_prints(c, m, r, title) ==
    IF c = "main" /\ r.tag = "Some" THEN <<[title |-> title, map |-> m, result |-> r.val]>>
    ELSE <<>>

\* A call of brute_force_tsp(&intercity_map); main goes on to the second solver.
CallBruteForce ==
    /\ pc = "have_map"
    /\ LET r == brute_force_tsp(intercity_map)
       IN  /\ bf_ret' = r
           /\ errlog' = errlog \o solver_errors(intercity_map, r)
                               \o main_errors(caller, r, ErrMainBrute)
           /\ stdout' = stdout \o main_prints(caller, intercity_map, r, "(Using Brute Force)")
           /\ pc' = IF r.tag = "Panic" THEN "panicked"
                    ELSE IF caller = "main" THEN "bf_done"
                    ELSE "done"
    /\ UNCHANGED <<caller, intercity_map, gen_args, gen_ret, path, cost_ret, path_ret,
                   sa_ret, optimal_path, optimal_cost, new_cost, i>>

\* simulated_annealing_tsp, lines 88-103: the validation, the identity path as
\* incumbent and its cost.
AnnealStart ==
    /\ \/ caller = "test" /\ pc = "have_map"
       \/ caller = "main" /\ pc = "bf_done"
    /\ IF ~valid_city_map(intercity_map)
       THEN /\ sa_ret' = None
            /\ errlog' = errlog \o solver_errors(intercity_map, None)
                                \o main_errors(caller, None, ErrMainAnneal)
            /\ pc' = "done"
            /\ UNCHANGED <<optimal_path, optimal_cost>>
       ELSE LET c == path_cost(intercity_map, initial_path(intercity_map))
            IN  /\ optimal_path' = initial_path(intercity_map)
                /\ optimal_cost' = c
                /\ sa_ret' = IF c.tag = "Panic" THEN Panic ELSE sa_ret
                /\ pc' = IF c.tag = "Panic" THEN "panicked" ELSE "sa_loop"
                /\ UNCHANGED errlog
    /\ UNCHANGED <<caller, intercity_map, gen_args, gen_ret, path, cost_ret, path_ret,
                   bf_ret, new_cost, i, stdout>>

\* One iteration of `for _ in 0..k`, lines 104-112.
AnnealIterate ==
    /\ pc = "sa_loop"
    /\ i < k
    /\ \E shuffled \in shuffle(optimal_path) :
         LET c == path_cost(intercity_map, shuffled)
         IN  /\ new_cost' = c
             /\ IF c.tag = "Panic"
                THEN /\ sa_ret' = Panic
                     /\ pc' = "panicked"
                     /\ UNCHANGED <<optimal_path, optimal_cost, i>>
                ELSE /\ optimal_path' = IF improves(c, optimal_cost) THEN shuffled
                                        ELSE optimal_path
                     /\ optimal_cost' = IF improves(c, optimal_cost) THEN c
                                        ELSE optimal_cost
                     /\ i' = i + 1
                     /\ UNCHANGED <<sa_ret, pc>>
    /\ UNCHANGED <<caller, intercity_map, gen_args, gen_ret, path, cost_ret, path_ret,
                   bf_ret, errlog, stdout>>

\* The end of the loop and the match on optimal_cost, lines 114-120.
AnnealReturn ==
    /\ pc = "sa_loop"
    /\ i = k
    /\ LET r == IF optimal_cost.tag = "Some"
                THEN Some(<<optimal_path, optimal_cost.val>>)
                ELSE None
       IN  /\ sa_ret' = r
           /\ errlog' = errlog \o solver_errors(intercity_map, r)
                               \o main_errors(caller, r, ErrMainAnneal)
           /\ stdout' = stdout
                          \o main_prints(caller, intercity_map, r, "(Using Simulated Annealing)")
    /\ pc' = "done"
    /\ UNCHANGED <<caller, intercity_map, gen_args, gen_ret, path, cost_ret, path_ret,
                   bf_ret, optimal_path, optimal_cost, new_cost, i>>

Next ==
    \/ GenerateMap
    \/ CallPathCost
    \/ CallGenerateRandomPath
    \/ CallBruteForce
    \/ AnnealStart
    \/ AnnealIterate
    \/ AnnealReturn

Spec == Init /\ [][Next]_vars

-----------------------------------------------------------------------------
\* Vocabulary of the properties, defined without the operators above.

\* Non-empty, and EVERY row as long as the matrix has rows.
IsSquare(m) == Len(m) >= 1 /\ \A r \in 1..Len(m) : Len(m[r]) = Len(m)

\* p visits each of the cities 0..n-1 exactly once.
IsPermutation(p, n) == Len(p) = n /\ {p[x] : x \in 1..Len(p)} = 0..(n - 1)

AllTours(n) == {p \in [1..n -> 0..(n - 1)] : IsPermutation(p, n)}

IdentityPath(n) == [x \in 1..n |-> x - 1]

\* The weight of p's consecutive pairs, by the additivity law: the cost of the
\* path without its last city plus the last edge.
RECURSIVE EdgeSum(_, _)
EdgeSum(m, p) ==
    IF Len(p) <= 1 THEN 0
    ELSE EdgeSum(m, SubSeq(p, 1, Len(p) - 1)) + m[p[Len(p) - 1] + 1][p[Len(p)] + 1]

\* Every consecutive pair of p is an entry of m.
EdgesInside(m, p) ==
    \A x \in 1..(Len(p) - 1) :
        /\ p[x] < Len(m)
        /\ p[x + 1] < Len(m[p[x] + 1])

MinTourCost(m) ==
    LET costs == {EdgeSum(m, p) : p \in AllTours(Len(m))}
    IN  CHOOSE c \in costs : \A d \in costs : c <= d

\* p comes before q in the lexicographic order.
LexBefore(p, q) ==
    \E x \in 1..Len(p) : p[x] < q[x] /\ \A y \in 1..(x - 1) : p[y] = q[y]

-----------------------------------------------------------------------------
\* C1: whenever brute_force_tsp was called on a matrix valid_city_map accepts,
\* it returned Some((path, cost)) and no permutation of the cities costs
\* strictly less than the reported cost.
C1_ExactOptimality ==
    (bf_ret.tag # "NotCalled" /\ valid_city_map(intercity_map)) =>
        /\ bf_ret.tag = "Some"
        /\ \A p \in AllTours(Len(intercity_map)) :
              ~OptLess(path_cost(intercity_map, p), Some(bf_ret.val[2]))

\* C2: on every map generate_map produced, whatever the shuffles were,
\* simulated_annealing_tsp returns the path and the cost brute_force_tsp returns.
C2_AnnealEqualsBruteForce ==
    (gen_ret.tag = "Some" /\ sa_ret.tag = "Some") =>
        sa_ret = brute_force_tsp(intercity_map)

\* C3: on a square matrix simulated_annealing_tsp returns a cost that is at
\* least the minimum over all permutations and at most the identity path's.
C3_HeuristicBound ==
    (sa_ret.tag # "NotCalled" /\ IsSquare(intercity_map)) =>
        /\ sa_ret.tag = "Some"
        /\ sa_ret.val[2] >= MinTourCost(intercity_map)
        /\ sa_ret.val[2] <= EdgeSum(intercity_map, IdentityPath(Len(intercity_map)))

\* A returned cost strictly between the optimum and the identity path's cost.
C3_Witness ==
    /\ sa_ret.tag = "Some"
    /\ IsSquare(intercity_map)
    /\ sa_ret.val[2] > MinTourCost(intercity_map)
    /\ sa_ret.val[2] < EdgeSum(intercity_map, IdentityPath(Len(intercity_map)))

\* C4: the validator accepts exactly the non-empty square matrices:
\* generate_random_path, which only validates, returns None exactly for the
\* empty and the non-square (ragged included) ones.
C4_Validator ==
    (path_ret.tag # "NotCalled") =>
        /\ valid_city_map(intercity_map) <=> IsSquare(intercity_map)
        /\ path_ret.tag = "Some" <=> IsSquare(intercity_map)

\* C5: on every matrix, path_cost (path indices below the number of rows),
\* generate_random_path, brute_force_tsp and simulated_annealing_tsp return
\* None or Some; none of them panics on an out-of-bounds index.
C5_NoOutOfBounds ==
    /\ cost_ret.tag # "Panic"
    /\ path_ret.tag # "Panic"
    /\ bf_ret.tag # "Panic"
    /\ sa_ret.tag # "Panic"

\* C6: brute_force_tsp returns the lexicographically first permutation among
\* those of minimum cost, with that cost; on the map of test_brute_force_tsp
\* it returns [0,3,2,1] and the cost of [0,3,2,1].
C6_TieBreak ==
    /\ bf_ret.tag = "Some" =>
          LET m == intercity_map
              p == bf_ret.val[1]
          IN  /\ IsPermutation(p, Len(m))
              /\ bf_ret.val[2] = EdgeSum(m, p)
              /\ \A q \in AllTours(Len(m)) \ {p} :
                    \/ EdgeSum(m, q) > EdgeSum(m, p)
                    \/ EdgeSum(m, q) = EdgeSum(m, p) /\ LexBefore(p, q)
    /\ (bf_ret.tag # "NotCalled" /\ intercity_map = TestBruteForceMap) =>
          /\ bf_ret.tag = "Some"
          /\ bf_ret.val = <<<<0, 3, 2, 1>>, EdgeSum(TestBruteForceMap, <<0, 3, 2, 1>>)>>

\* brute_force_tsp returned on a map where a later permutation ties with the
\* minimum.
C6_Witness ==
    /\ bf_ret.tag = "Some"
    /\ \E q \in AllTours(Len(intercity_map)) :
          /\ LexBefore(bf_ret.val[1], q)
          /\ EdgeSum(intercity_map, q) = bf_ret.val[2]

\* C7: generate_map with low = high returns None for every number of cities;
\* main (generate_map(10, (1, 1))) goes on with the empty matrix, both solvers
\* return None, the failures are logged, nothing is printed, and main never
\* panics nor stops before its end.
C7_DegenerateRange ==
    /\ (gen_ret.tag # "NotCalled" /\ gen_args[2] = gen_args[3]) =>
          /\ gen_ret.tag = "None"
          /\ intercity_map = <<>>
    /\ (caller = "main") =>
          /\ pc # "panicked"
          /\ pc # "done" => ENABLED Next
          /\ pc # "start" =>
                /\ gen_args = <<MainNumCities, MainLow, MainHigh>>
                /\ gen_ret.tag = "None"
                /\ intercity_map = <<>>
          /\ pc \in {"bf_done", "done"} => bf_ret.tag = "None"
          /\ pc = "done" =>
                /\ sa_ret.tag = "None"
                /\ stdout = <<>>
                /\ errlog = <<ErrRange, ErrSquare, ErrMainBrute, ErrSquare, ErrMainAnneal>>

\* main at its end.
C7_Witness == caller = "main" /\ pc = "done" /\ gen_ret.tag = "None" /\ sa_ret.tag = "None"

\* C8: path_cost is None on a matrix the validator rejects; on one it accepts,
\* for a path whose consecutive pairs are entries of the matrix, it is Some of
\* 0 for a path of length 0 or 1 and of the cost of the path without its last
\* city plus the last edge for a longer one (no closing edge); the path
\* [0,1,2,3] costs 6 on the all-2 map of test_path_cost.
C8_PathCost ==
    (cost_ret.tag # "NotCalled") =>
        LET m == intercity_map
            L == Len(path)
        IN  /\ ~valid_city_map(m) => cost_ret.tag = "None"
            /\ (valid_city_map(m) /\ EdgesInside(m, path)) =>
                  /\ cost_ret.tag = "Some"
                  /\ L <= 1 => cost_ret.val = 0
                  /\ L >= 2 =>
                        cost_ret.val =
                            path_cost(m, SubSeq(path, 1, L - 1)).val
                                + m[path[L - 1] + 1][path[L] + 1]
                  /\ cost_ret.val = EdgeSum(m, path)
            /\ (m = TestPathCostMap /\ path = <<0, 1, 2, 3>>) => cost_ret = Some(6)

\* path_cost returned for a path of three cities that ends where it started: a
\* closing edge or a dropped edge would show.
C8_Witness ==
    /\ cost_ret.tag = "Some"
    /\ Len(path) = 3
    /\ path[1] # path[2]
    /\ path[3] = path[1]
    /\ cost_ret.val > 0

\* C9: the path generate_random_path returns, the incumbent path of
\* simulated_annealing_tsp in every state of its loop and the path it returns
\* are permutations of the cities 0..N-1.
C9_Permutation ==
    LET n == Len(intercity_map)
    IN  /\ path_ret.tag = "Some" => IsPermutation(path_ret.val, n)
        /\ pc = "sa_loop" => IsPermutation(optimal_path, n)
        /\ sa_ret.tag = "Some" => IsPermutation(sa_ret.val[1], n)

\* simulated_annealing_tsp returned a path of four cities other than the
\* identity path.
C9_Witness ==
    /\ sa_ret.tag = "Some"
    /\ Len(sa_ret.val[1]) = 4
    /\ sa_ret.val[1] # IdentityPath(4)

\* C10: on a square matrix the loop of simulated_annealing_tsp starts from the
\* identity path and its cost; every step of the loop before the k-th is an
\* iteration (never the return), which replaces the incumbent path and cost by
\* the candidate's when the candidate's cost is strictly less and leaves them
\* unchanged otherwise, so the incumbent cost never increases, is the cost of
\* the incumbent path, and changes at most once an iteration, k times in all;
\* the result is returned after exactly k iterations.
AnnealRegister ==
    LET m == intercity_map
    IN  /\ (pc = "sa_loop" /\ IsSquare(m)) =>
              /\ i \in 0..k
              /\ optimal_cost = Some(EdgeSum(m, optimal_path))
              /\ i = 0 => optimal_path = IdentityPath(Len(m))
        /\ (sa_ret.tag = "Some" /\ IsSquare(m)) =>
              /\ i = k
              /\ sa_ret.val = <<optimal_path, EdgeSum(m, optimal_path)>>

AnnealStep ==
    (pc = "sa_loop" /\ IsSquare(intercity_map)) =>
        IF i < k
        THEN /\ pc' = "sa_loop"
             /\ i' = i + 1
             /\ new_cost'.tag = "Some"
             /\ IF new_cost'.val < optimal_cost.val
                THEN /\ optimal_cost' = new_cost'
                     /\ optimal_path' # optimal_path
                     /\ EdgeSum(intercity_map, optimal_path') = new_cost'.val
                ELSE UNCHANGED <<optimal_path, optimal_cost>>
             /\ optimal_cost'.val <= optimal_cost.val
        ELSE /\ pc' = "done"
             /\ sa_ret' = Some(<<optimal_path, optimal_cost.val>>)

C10_Acceptance == []AnnealRegister /\ [][AnnealStep]_vars

\* The result returned after k iterations, of which one replaced the incumbent
\* and the last drew a candidate of the same cost as the incumbent.
C10_Witness ==
    /\ sa_ret.tag = "Some"
    /\ i = k
    /\ sa_ret.val[1] # IdentityPath(Len(intercity_map))
    /\ new_cost = optimal_cost

=============================================================================
